---- MODULE Spec2Model ----
(***************************************************************************)
(* escalate: the escalation wrapper (escalate), the suppression wrapper    *)
(* (ignore_escalated_errors) and the Escalate signal of                    *)
(* src/escalate/__init__.py, as a state machine over invocations of a      *)
(* decorated function.                                                     *)
(*                                                                         *)
(* A decorated function is the sequence of its wrappers, outermost first,  *)
(* around the base function f.  An invocation enters every wrapper's try   *)
(* block, runs f, and then unwinds: each wrapper, innermost first, sees    *)
(* what the function it wraps did and decides what its own call does.      *)
(***************************************************************************)
EXTENDS Naturals, Sequences, FiniteSets, TLC

\* Wrappers stacked around the base function (Spec).
MaxDepth == 2
\* Concurrent invocations of one decorated function (SpecConc).
MaxThreads == 2

VARIABLES
    wrapped,     \* the decorated function: its wrappers, outermost first
    calls,       \* the invocations: each one's frame
    collection   \* the notification mechanism's invocations, in order

vars == <<wrapped, calls, collection>>

-----------------------------------------------------------------------------
(* Exception classes and instances *)

\* A faulty Parent: class Escalate(Exception).
ParentSignalIsException(t) ==
    CASE t = "Exception" -> "BaseException"
      [] t = "KeyboardInterrupt" -> "BaseException"
      [] t = "Escalate" -> "Exception"
      [] t = "LookupError" -> "Exception"
      [] t = "RuntimeError" -> "Exception"
      [] t = "KeyError" -> "LookupError"
      [] t = "IndexError" -> "LookupError"
      [] t = "MyKeyError" -> "KeyError"
      [] OTHER -> "BaseException"

\* The base class of each class the model uses.
Parent(t) ==
    CASE t = "Exception" -> "BaseException"
      [] t = "KeyboardInterrupt" -> "BaseException"
      [] t = "Escalate" -> "BaseException"
      [] t = "LookupError" -> "Exception"
      [] t = "RuntimeError" -> "Exception"
      [] t = "KeyError" -> "LookupError"
      [] t = "IndexError" -> "LookupError"
      [] t = "MyKeyError" -> "KeyError"
      [] OTHER -> "BaseException"

RECURSIVE issubclass(_, _)
issubclass(t, u) ==
    \/ t = u
    \/ t # "BaseException" /\ issubclass(Parent(t), u)

isinstance(ex, u) == issubclass(ex.type, u)

NoArg == "<no argument>"

\* An exception instance other than the signal.  origin tells instances apart:
\* <<invocation, level, site>> of the place that created it.
NewException(t, arg, origin) ==
    [type |-> t, arg |-> arg, root_cause |-> <<>>, origin |-> origin]

\* Escalate.__init__: the signal holds the instance it was created for.
Escalate(root_cause, origin) ==
    [type |-> "Escalate", arg |-> NoArg, root_cause |-> <<root_cause>>,
     origin |-> origin]

\* repr(ex); Escalate.__repr__ delegates to its root cause.
RECURSIVE repr(_)
repr(ex) ==
    IF ex.type = "Escalate" /\ ex.root_cause # <<>>
    THEN repr(ex.root_cause[1])
    ELSE IF ex.arg = NoArg THEN ex.type \o "()"
    ELSE ex.type \o "('" \o ex.arg \o "')"

\* str(ex); Escalate.__str__ delegates to its root cause, KeyError quotes its key.
RECURSIVE str(_)
str(ex) ==
    IF ex.type = "Escalate" /\ ex.root_cause # <<>>
    THEN str(ex.root_cause[1])
    ELSE IF ex.arg = NoArg THEN ""
    ELSE IF issubclass(ex.type, "KeyError") THEN "'" \o ex.arg \o "'"
    ELSE ex.arg

-----------------------------------------------------------------------------
(* Match functions *)

\* re.compile(".*" + pattern + ".*").match(s), as the tests build their match
\* functions: truthy iff pattern occurs in s.
re_match(pattern, s) ==
    \E i \in 1..(Len(s) + 1) :
        /\ i + Len(pattern) - 1 <= Len(s)
        /\ SubSeq(s, i, i + Len(pattern) - 1) = pattern

\* A match-function parameter: None, or a match function.
None == [given |-> FALSE, pattern |-> ""]
Matcher(pattern) == [given |-> TRUE, pattern |-> pattern]

-----------------------------------------------------------------------------
(* Outcomes of a call *)

PyNone == "None"
Pending == [kind |-> "pending", value |-> "", ex |-> <<>>]
Return(v) == [kind |-> "return", value |-> v, ex |-> <<>>]
Raise(ex) == [kind |-> "raise", value |-> "", ex |-> <<ex>>]

Returned(o) == o.kind = "return"
Raised(o) == o.kind = "raise"

-----------------------------------------------------------------------------
(* The decorators *)

\* escalate(exceptions, repr_match, str_match, mechanism): the wrapper it makes.
\* mechanism is TRUE when a report function is given.
escalate(exceptions, repr_match, str_match, mechanism) ==
    [kind |-> "escalate", exceptions |-> exceptions, repr_match |-> repr_match,
     str_match |-> str_match, mechanism |-> mechanism]

ignore_escalated_errors == [kind |-> "ignore"]

BaseName == "a0_plus_ba"

\* f.__name__ of the function wrapper k of w wraps (no wrapper keeps the name
\* of what it wraps).
NameOf(w, k) ==
    IF k = Len(w) THEN BaseName
    ELSE IF w[k + 1].kind = "escalate" THEN "_escalate"
    ELSE "_ignore_escalated_errors"

ExceptionLists ==
    { {"KeyError"},
      {"KeyError", "IndexError", "RuntimeError", "KeyboardInterrupt", "Escalate"} }
ReprMatchers == {None, Matcher("KeyError")}
StrMatchers == {None, Matcher("index")}

Policies ==
    { escalate(e, r, s, m) :
        e \in ExceptionLists, r \in ReprMatchers, s \in StrMatchers, m \in BOOLEAN }

Wrappers == Policies \cup {ignore_escalated_errors}

Functions(n) == UNION { [1..k -> Wrappers] : k \in 0..n }

\* One escalation wrapper with a report function and the longer exceptions
\* list, alone or under the suppression wrapper.
EscalatedFunctions ==
    LET ps == { p \in Policies : p.mechanism /\ "IndexError" \in p.exceptions } IN
    { <<p>> : p \in ps } \cup { <<ignore_escalated_errors, p>> : p \in ps }

-----------------------------------------------------------------------------
(* What the callables given by the caller may do *)

\* The arguments invocation c is made with: (*args, **kwargs), kwargs as a
\* set of <<key, value>>.  Every invocation passes arguments of its own.
CallInputs(c) ==
    { [args |-> <<c, 2>>, kwargs |-> {<<"b", c>>}] }

\* What f may do when invocation c runs it at level n.
FOutcomes(c, n) ==
    { Return("3") } \cup
    { Raise(NewException(t[1], t[2], <<c, n, "f">>)) :
        t \in { <<"KeyError", "b">>, <<"KeyError", "index">>,
                <<"IndexError", "list index out of range">>,
                <<"RuntimeError", "boom">>, <<"MyKeyError", "b">>,
                <<"KeyboardInterrupt", NoArg>> } }

\* What a report function may do besides returning: raise an error of its own,
\* or (a report function that is itself decorated) raise the signal.
MechanismFailures(c, k) ==
    { NewException("RuntimeError", "smtp down", <<c, k, "mechanism">>),
      Escalate(NewException("RuntimeError", "smtp down", <<c, k, "inner">>),
               <<c, k, "mechanism">>) }

-----------------------------------------------------------------------------
(* _escalate *)

\* A faulty ReturnF: f(*args, **kwargs) without the return.
ReturnDropped(o) == Return(PyNone)

\* return f(*args, **kwargs): the wrapped function's value is the call's value.
ReturnF(o) == o

\* A faulty Caught: except BaseException.
CaughtBaseException(ex) == isinstance(ex, "BaseException")

\* except Exception as ex
Caught(ex) == isinstance(ex, "Exception")

\* A faulty TypeListed: isinstance(ex, tuple(exceptions)).
TypeListedOrSubclass(p, ex) == \E t \in p.exceptions : issubclass(ex.type, t)

\* type(ex) in exceptions
TypeListed(p, ex) == ex.type \in p.exceptions

\* A faulty MatchCondition: every match function given must match.
MatchConditionAll(p, ex) ==
    /\ p.repr_match.given => re_match(p.repr_match.pattern, repr(ex))
    /\ p.str_match.given => re_match(p.str_match.pattern, str(ex))

\* The condition of the inner if.
MatchCondition(p, ex) ==
    \/ ~p.repr_match.given /\ ~p.str_match.given
    \/ p.repr_match.given /\ re_match(p.repr_match.pattern, repr(ex))
    \/ p.str_match.given /\ re_match(p.str_match.pattern, str(ex))

\* A faulty MechanismCall: the wrapper reports its own name.
MechanismCallOwnName(ex, name, args, kwargs) ==
    [ex |-> ex, fn |-> "_escalate", args |-> args, kwargs |-> kwargs]

\* A faulty MechanismCall: the arguments are kept in a place the invocations
\* share, and the report gets what the first invocation left there.
MechanismCallSharedArgs(ex, name, args, kwargs) ==
    [ex |-> ex, fn |-> name, args |-> calls[1].args, kwargs |-> calls[1].kwargs]

\* mechanism(ex, f.__name__, args, kwargs): what the mechanism is given.
MechanismCall(ex, name, args, kwargs) ==
    [ex |-> ex, fn |-> name, args |-> args, kwargs |-> kwargs]

\* The record of the mechanism's invocations (Collector.escalate appends what
\* it was given); `by` tells which wrapper of which invocation made the call,
\* `outcome` what the mechanism did.
Collect(coll, by, call, outcome) ==
    Append(coll, [by |-> by, call |-> call, outcome |-> outcome])

\* A faulty MechanismRaised: _escalate handles the report function's failure
\* and goes on to raise the signal.
MechanismRaisedHandled(ex, m) ==
    Raise(Escalate(ex, <<m.origin[1], m.origin[2], "raise">>))

\* An exception out of mechanism(...) is not handled in _escalate.
MechanismRaised(ex, m) == Raise(m)

-----------------------------------------------------------------------------
(* _ignore_escalated_errors *)

\* A faulty Ignored: a bare except.
IgnoredAny(ex) == isinstance(ex, "BaseException")

\* except Escalate
Ignored(ex) == isinstance(ex, "Escalate")

-----------------------------------------------------------------------------
(* Invocations *)

Idle == [pc |-> "idle", args |-> <<>>, kwargs |-> {}, level |-> 0, ret |-> <<>>]

\* Wrapper `level` of invocation c is done with outcome o: control goes to the
\* wrapper around it, or back to the caller.
Leave(c, o) ==
    LET fr == calls[c] IN
    calls' = [calls EXCEPT ![c] =
                [fr EXCEPT !.ret[fr.level] = o,
                           !.level = fr.level - 1,
                           !.pc = IF fr.level = 1 THEN "done" ELSE "try"]]

\* The caller invokes the decorated function; every wrapper calls the function
\* it wraps inside its try block, down to f.
Call(c, in) ==
    /\ calls[c].pc = "idle"
    /\ calls' = [calls EXCEPT ![c] =
                   [pc |-> "f", args |-> in.args, kwargs |-> in.kwargs,
                    level |-> Len(wrapped) + 1,
                    ret |-> [k \in 1..(Len(wrapped) + 1) |-> Pending]]]
    /\ UNCHANGED <<wrapped, collection>>

\* The base function runs: it returns or raises.
f(c) ==
    /\ calls[c].pc = "f"
    /\ \E o \in FOutcomes(c, calls[c].level) : Leave(c, o)
    /\ UNCHANGED <<wrapped, collection>>

\* _escalate, from the end of f(*args, **kwargs) to the mechanism call, the
\* raise of the signal, or the end of the call.
EscalateTry(c) ==
    LET fr == calls[c]
        p == wrapped[fr.level]
        o == fr.ret[fr.level + 1]
    IN
    /\ fr.pc = "try"
    /\ p.kind = "escalate"
    /\ IF Returned(o) THEN Leave(c, ReturnF(o))
       ELSE LET ex == o.ex[1] IN
            IF Caught(ex) /\ TypeListed(p, ex) /\ MatchCondition(p, ex)
            THEN calls' = [calls EXCEPT ![c].pc =
                              IF p.mechanism THEN "mechanism" ELSE "raise"]
            ELSE Leave(c, o)
    /\ UNCHANGED <<wrapped, collection>>

\* mechanism(ex, f.__name__, args, kwargs): the report function is invoked and
\* returns, or raises.
EscalateMechanism(c) ==
    LET fr == calls[c]
        ex == fr.ret[fr.level + 1].ex[1]
    IN
    /\ fr.pc = "mechanism"
    /\ \E o \in {Return(PyNone)} \cup { Raise(m) : m \in MechanismFailures(c, fr.level) } :
          /\ collection' = Collect(collection, <<c, fr.level>>,
                 MechanismCall(ex, NameOf(wrapped, fr.level), fr.args, fr.kwargs), o)
          /\ IF Returned(o) THEN calls' = [calls EXCEPT ![c].pc = "raise"]
             ELSE Leave(c, MechanismRaised(ex, o.ex[1]))
    /\ UNCHANGED wrapped

\* raise Escalate(ex)
EscalateRaise(c) ==
    LET fr == calls[c]
        ex == fr.ret[fr.level + 1].ex[1]
    IN
    /\ fr.pc = "raise"
    /\ Leave(c, Raise(Escalate(ex, <<c, fr.level, "raise">>)))
    /\ UNCHANGED <<wrapped, collection>>

\* _ignore_escalated_errors, from the end of f(*args, **kwargs).
IgnoreTry(c) ==
    LET fr == calls[c]
        o == fr.ret[fr.level + 1]
    IN
    /\ fr.pc = "try"
    /\ wrapped[fr.level].kind = "ignore"
    /\ IF Raised(o) /\ Ignored(o.ex[1]) THEN Leave(c, Return(PyNone))
       ELSE Leave(c, o)
    /\ UNCHANGED <<wrapped, collection>>

Next ==
    \/ \E c \in DOMAIN calls : \E in \in CallInputs(c) : Call(c, in)
    \/ \E c \in DOMAIN calls : f(c)
    \/ \E c \in DOMAIN calls : EscalateTry(c)
    \/ \E c \in DOMAIN calls : EscalateMechanism(c)
    \/ \E c \in DOMAIN calls : EscalateRaise(c)
    \/ \E c \in DOMAIN calls : IgnoreTry(c)

\* One invocation of any decorated function.
Init ==
    /\ wrapped \in Functions(MaxDepth)
    /\ calls = [c \in 1..1 |-> Idle]
    /\ collection = <<>>

Spec == Init /\ [][Next]_vars

\* Concurrent invocations of one escalation-wrapped function.
InitConc ==
    /\ wrapped \in EscalatedFunctions
    /\ calls = [c \in 1..MaxThreads |-> Idle]
    /\ collection = <<>>

SpecConc == InitConc /\ [][Next]_vars

-----------------------------------------------------------------------------
(* What the properties observe *)

Started(c) == calls[c].pc # "idle"

\* The calls of escalation wrappers, and of suppression wrappers, under way or
\* over: <<invocation, level>>.
EscalationCalls ==
    { ck \in (DOMAIN calls) \X (1..Len(wrapped)) :
        Started(ck[1]) /\ wrapped[ck[2]].kind = "escalate" }
SuppressionCalls ==
    { ck \in (DOMAIN calls) \X (1..Len(wrapped)) :
        Started(ck[1]) /\ wrapped[ck[2]].kind = "ignore" }

\* What the function wrapped at level k did, and what wrapper k's call did.
Inner(c, k) == calls[c].ret[k + 1]
Result(c, k) == calls[c].ret[k]
Over(c, k) == Result(c, k) # Pending

\* The exception the wrapped function raised.
Ex(c, k) == Inner(c, k).ex[1]

\* The mechanism invocations made by wrapper k of invocation c.
Notified(c, k) ==
    { i \in DOMAIN collection : collection[i].by = <<c, k>> }

\* Wrapper k of invocation c is between its classification and the raise.
Escalating(c, k) ==
    calls[c].level = k /\ calls[c].pc \in {"mechanism", "raise"}

\* The signal wrapper k of invocation c creates for what it caught.
Signal(c, k) == Raise(Escalate(Ex(c, k), <<c, k, "raise">>))

\* The mechanism invocation wrapper k of invocation c is to make.
Report(c, k) ==
    [ex |-> Ex(c, k), fn |-> NameOf(wrapped, k), args |-> calls[c].args,
     kwargs |-> calls[c].kwargs]

\* The match functions' verdict, as the specification words it.
SomeMatch(p, ex) ==
    \/ p.repr_match.given /\ re_match(p.repr_match.pattern, repr(ex))
    \/ p.str_match.given /\ re_match(p.str_match.pattern, str(ex))

\* Wrapper k took the escalation path: it raised the signal, or its report
\* function raised.
Escalated(c, k) ==
    /\ Raised(Result(c, k))
    /\ \/ Result(c, k) = Signal(c, k)
       \/ Result(c, k).ex[1] \in MechanismFailures(c, k)

-----------------------------------------------------------------------------
(* Properties *)

\* C1: when the wrapped function returns normally with value v, the
\* escalation-wrapped call returns the same v, raises nothing, and the
\* mechanism is never invoked, whatever the policy.
C1_NormalReturn ==
    \A ck \in EscalationCalls :
        LET c == ck[1]  k == ck[2] IN
        Returned(Inner(c, k)) =>
            /\ Notified(c, k) = {}
            /\ ~Escalating(c, k)
            /\ Over(c, k) => Result(c, k) = Inner(c, k)

C1_Witness ==
    \E ck \in EscalationCalls :
        LET c == ck[1]  k == ck[2] IN
        /\ wrapped[k].mechanism
        /\ Inner(c, k) = Return("3")
        /\ Result(c, k) = Return("3")

\* C2: an exception whose exact type is not in exceptions (a subclass of a
\* listed type included) leaves the escalation-wrapped call as the same
\* instance; no signal is created and the mechanism is never invoked,
\* whatever the match functions.
C2_TypeNotListed ==
    \A ck \in EscalationCalls :
        LET c == ck[1]  k == ck[2] IN
        (Raised(Inner(c, k)) /\ Ex(c, k).type \notin wrapped[k].exceptions) =>
            /\ Notified(c, k) = {}
            /\ ~Escalating(c, k)
            /\ Over(c, k) => Result(c, k) = Inner(c, k)

C2_Witness ==
    \E ck \in EscalationCalls :
        LET c == ck[1]  k == ck[2] IN
        /\ Raised(Inner(c, k))
        /\ Ex(c, k).type = "MyKeyError"
        /\ "KeyError" \in wrapped[k].exceptions
        /\ wrapped[k].repr_match.given
        /\ wrapped[k].mechanism
        /\ Result(c, k) = Inner(c, k)

\* C8: a raised value that does not derive from Exception is never
\* intercepted by the escalation wrapper, even when exceptions lists its exact
\* type: the same instance propagates, no signal is created, the mechanism is
\* never invoked.
C8_AbortNotIntercepted ==
    \A ck \in EscalationCalls :
        LET c == ck[1]  k == ck[2] IN
        (Raised(Inner(c, k)) /\ ~issubclass(Ex(c, k).type, "Exception")) =>
            /\ Notified(c, k) = {}
            /\ ~Escalating(c, k)
            /\ Over(c, k) => Result(c, k) = Inner(c, k)

C8_Witness ==
    \E ck \in EscalationCalls :
        LET c == ck[1]  k == ck[2] IN
        /\ Raised(Inner(c, k))
        /\ Ex(c, k).type = "KeyboardInterrupt"
        /\ "KeyboardInterrupt" \in wrapped[k].exceptions
        /\ ~wrapped[k].repr_match.given /\ ~wrapped[k].str_match.given
        /\ wrapped[k].mechanism
        /\ Result(c, k) = Inner(c, k)

\* C3 as claimed: an exception whose exact type is in exceptions, with no match
\* function configured, makes the escalation-wrapped call raise the signal
\* whose root cause is that instance, after the mechanism (if configured) was
\* invoked exactly once with (ex, name of f, args, kwargs).
C3_AsClaimed ==
    \A ck \in EscalationCalls :
        LET c == ck[1]  k == ck[2]  p == wrapped[k] IN
        ( /\ Raised(Inner(c, k))
          /\ Ex(c, k).type \in p.exceptions
          /\ ~p.repr_match.given /\ ~p.str_match.given
          /\ Over(c, k) ) =>
            /\ Result(c, k) = Signal(c, k)
            /\ p.mechanism =>
                 /\ Cardinality(Notified(c, k)) = 1
                 /\ \A i \in Notified(c, k) : collection[i].call = Report(c, k)

\* C3: an exception deriving from Exception whose exact type is in exceptions,
\* with no match function configured: the mechanism (if configured) is
\* invoked exactly once, with (ex, name of f, args, kwargs), before any signal
\* is raised; then, unless the mechanism itself raised, the call raises the
\* signal whose root cause is that instance.
C3_ListedTypeEscalates ==
    \A ck \in EscalationCalls :
        LET c == ck[1]  k == ck[2]  p == wrapped[k]  fr == calls[c] IN
        ( /\ Raised(Inner(c, k))
          /\ issubclass(Ex(c, k).type, "Exception")
          /\ Ex(c, k).type \in p.exceptions
          /\ ~p.repr_match.given /\ ~p.str_match.given ) =>
            /\ (fr.level = k /\ fr.pc \in {"try", "mechanism"}) => Notified(c, k) = {}
            /\ ~p.mechanism => Notified(c, k) = {} /\ ~(fr.level = k /\ fr.pc = "mechanism")
            /\ (p.mechanism /\ (Over(c, k) \/ (fr.level = k /\ fr.pc = "raise"))) =>
                 /\ Cardinality(Notified(c, k)) = 1
                 /\ \A i \in Notified(c, k) : collection[i].call = Report(c, k)
            /\ Over(c, k) =>
                 \/ Result(c, k) = Signal(c, k)
                 \/ /\ p.mechanism
                    /\ Raised(Result(c, k))
                    /\ Result(c, k).ex[1] \in MechanismFailures(c, k)

C3_Witness ==
    \E ck \in EscalationCalls :
        LET c == ck[1]  k == ck[2]  p == wrapped[k] IN
        /\ k = Len(wrapped)
        /\ p.mechanism
        /\ ~p.repr_match.given /\ ~p.str_match.given
        /\ Raised(Inner(c, k)) /\ Ex(c, k).type = "KeyError"
        /\ Result(c, k) = Signal(c, k)
        /\ Result(c, k).ex[1].root_cause = <<Ex(c, k)>>
        /\ \E i \in Notified(c, k) :
              /\ collection[i].call.fn = BaseName
              /\ collection[i].call.args = <<c, 2>>
              /\ collection[i].call.kwargs = {<<"b", c>>}

C5_ReprMatchMustMatch ==
    \A ck \in EscalationCalls :
        LET c == ck[1]  k == ck[2]  p == wrapped[k] IN
        ( /\ Raised(Inner(c, k))
          /\ issubclass(Ex(c, k).type, "Exception")
          /\ Ex(c, k).type \in p.exceptions
          /\ p.repr_match.given
          /\ Over(c, k) ) =>
            /\ Escalated(c, k) <=> re_match(p.repr_match.pattern, repr(Ex(c, k)))
            /\ ~re_match(p.repr_match.pattern, repr(Ex(c, k))) =>
                 Result(c, k) = Inner(c, k) /\ Notified(c, k) = {}

\* The suppression wrappers whose wrapped function is an escalation wrapper.
SuppressedEscalations ==
    { ck \in SuppressionCalls :
        ck[2] < Len(wrapped) /\ wrapped[ck[2] + 1].kind = "escalate" }

\* C6: for ignore_escalated_errors(escalate(policy)(f)): (i) if escalation
\* occurs the call returns None and the mechanism (when configured) was invoked
\* exactly once; (ii) if f returns v the call returns v and the mechanism was
\* not invoked; (iii) if f raises an exception, not itself a signal, that is
\* not escalated, that instance propagates out of the suppression wrapper and
\* the mechanism was not invoked.  The suppression wrapper swallows signals
\* and nothing else.
C6_SuppressedComposition ==
    \A ck \in SuppressedEscalations :
        LET c == ck[1]  k == ck[2]  p == wrapped[k + 1]
            fo == Inner(c, k + 1)
        IN
        Over(c, k) =>
            /\ (Raised(fo) /\ Result(c, k + 1) = Signal(c, k + 1)) =>
                 /\ Result(c, k) = Return(PyNone)
                 /\ Cardinality(Notified(c, k + 1)) = IF p.mechanism THEN 1 ELSE 0
            /\ Returned(fo) =>
                 Result(c, k) = fo /\ Notified(c, k + 1) = {}
            /\ ( /\ Raised(fo)
                 /\ ~issubclass(fo.ex[1].type, "Escalate")
                 /\ \/ ~issubclass(fo.ex[1].type, "Exception")
                    \/ fo.ex[1].type \notin p.exceptions
                    \/ /\ p.repr_match.given \/ p.str_match.given
                       /\ ~SomeMatch(p, fo.ex[1]) ) =>
                 Result(c, k) = fo /\ Notified(c, k + 1) = {}
            /\ Result(c, k) # Inner(c, k) =>
                 /\ Raised(Inner(c, k))
                 /\ Ex(c, k).type = "Escalate"
                 /\ Result(c, k) = Return(PyNone)

C6_Witness ==
    \E ck \in SuppressedEscalations :
        LET c == ck[1]  k == ck[2]  p == wrapped[k + 1] IN
        /\ k = 1
        /\ p.mechanism
        /\ Raised(Inner(c, k + 1)) /\ Ex(c, k + 1).type = "KeyError"
        /\ Result(c, k + 1) = Signal(c, k + 1)
        /\ Result(c, k) = Return(PyNone)
        /\ Cardinality(Notified(c, k + 1)) = 1
        /\ calls[c].pc = "done"

\* The mechanism invocations that raised.
FailedNotifications ==
    { i \in DOMAIN collection : Raised(collection[i].outcome) }

\* C7 as claimed: when the mechanism raises m, the escalation-wrapped call
\* raises m as it is, raises no signal wrapping ex, and an enclosing
\* suppression wrapper does not suppress m, for every m.
C7_AsClaimed ==
    \A i \in FailedNotifications :
        LET c == collection[i].by[1]  k == collection[i].by[2]
            m == collection[i].outcome.ex[1]
        IN
        /\ Result(c, k) = Raise(m)
        /\ Result(c, k) # Signal(c, k)
        /\ (k > 1 /\ wrapped[k - 1].kind = "ignore" /\ Over(c, k - 1)) =>
             Result(c, k - 1) = Raise(m)

\* C7: when the mechanism raises m, the escalation-wrapped call raises m as
\* it is and raises no signal wrapping ex; an enclosing suppression wrapper
\* does not suppress m unless m is itself a signal, which it swallows.
C7_NotificationFailure ==
    \A i \in FailedNotifications :
        LET c == collection[i].by[1]  k == collection[i].by[2]
            m == collection[i].outcome.ex[1]
        IN
        /\ Result(c, k) = Raise(m)
        /\ Result(c, k) # Signal(c, k)
        /\ (k > 1 /\ wrapped[k - 1].kind = "ignore" /\ Over(c, k - 1)) =>
             Result(c, k - 1) =
                IF issubclass(m.type, "Escalate") THEN Return(PyNone) ELSE Raise(m)

C7_Witness ==
    \E i \in FailedNotifications :
        LET c == collection[i].by[1]  k == collection[i].by[2]
            m == collection[i].outcome.ex[1]
        IN
        /\ k > 1 /\ wrapped[k - 1].kind = "ignore"
        /\ m.type = "RuntimeError"
        /\ Ex(c, k).type = "KeyError"
        /\ Result(c, k) = Raise(m)
        /\ Result(c, k - 1) = Raise(m)

\* C9: a signal raised below an escalation wrapper passes through it
\* unchanged (the same instance, the same root cause), whatever the wrapper's
\* policy lists, and the wrapper's mechanism is not invoked; no signal wraps a
\* signal; no exception is reported to a mechanism twice; the first
\* suppression wrapper the signal reaches turns it into None.
C9_SignalPassesThrough ==
    /\ \A ck \in EscalationCalls :
          LET c == ck[1]  k == ck[2] IN
          (Raised(Inner(c, k)) /\ Ex(c, k).type = "Escalate") =>
              /\ Notified(c, k) = {}
              /\ ~Escalating(c, k)
              /\ Over(c, k) => Result(c, k) = Inner(c, k)
    /\ \A ck \in EscalationCalls :
          LET c == ck[1]  k == ck[2] IN
          (Over(c, k) /\ Raised(Result(c, k)) /\ Result(c, k).ex[1].type = "Escalate"
              /\ Result(c, k).ex[1].origin = <<c, k, "raise">>) =>
                 Result(c, k).ex[1].root_cause[1].type # "Escalate"
    /\ \A i, j \in DOMAIN collection :
          collection[i].call.ex = collection[j].call.ex => i = j
    /\ \A i \in DOMAIN collection : collection[i].call.ex.type # "Escalate"
    /\ \A ck \in SuppressionCalls :
          LET c == ck[1]  k == ck[2] IN
          (Over(c, k) /\ Raised(Inner(c, k)) /\ Ex(c, k).type = "Escalate") =>
              Result(c, k) = Return(PyNone)

C9_Witness ==
    \E ck \in EscalationCalls :
        LET c == ck[1]  k == ck[2] IN
        /\ k < Len(wrapped)
        /\ wrapped[k + 1].kind = "escalate"
        /\ {"Escalate", "KeyError"} \subseteq wrapped[k].exceptions
        /\ ~wrapped[k].repr_match.given /\ ~wrapped[k].str_match.given
        /\ wrapped[k].mechanism /\ wrapped[k + 1].mechanism
        /\ Raised(Inner(c, k + 1)) /\ Ex(c, k + 1).type = "KeyError"
        /\ Inner(c, k) = Signal(c, k + 1)
        /\ Result(c, k) = Inner(c, k)
        /\ Len(collection) = 1

\* Whether policy p escalates ex, as the specification words it.
ShouldEscalate(p, ex) ==
    /\ issubclass(ex.type, "Exception")
    /\ ex.type \in p.exceptions
    /\ \/ ~p.repr_match.given /\ ~p.str_match.given
       \/ SomeMatch(p, ex)

\* What wrapper k of invocation c may do, given what the function it wraps
\* did in this invocation, the policy, and what its own report function did.
Expected(c, k) ==
    LET p == wrapped[k]  o == Inner(c, k) IN
    IF p.kind = "ignore"
    THEN { IF Raised(o) /\ o.ex[1].type = "Escalate" THEN Return(PyNone) ELSE o }
    ELSE IF Raised(o) /\ ShouldEscalate(p, o.ex[1])
    THEN {Signal(c, k)} \cup
         (IF p.mechanism THEN { Raise(m) : m \in MechanismFailures(c, k) } ELSE {})
    ELSE {o}

\* The escalation-wrapper calls that have got as far as their mechanism call.
Notifying ==
    { ck \in EscalationCalls :
        LET c == ck[1]  k == ck[2] IN
        /\ wrapped[k].mechanism
        /\ Raised(Inner(c, k))
        /\ ShouldEscalate(wrapped[k], Ex(c, k))
        /\ Over(c, k) \/ (calls[c].level = k /\ calls[c].pc = "raise") }

\* C10: under any interleaving of concurrent invocations of one
\* escalation-wrapped function, each invocation's outcome at every wrapper
\* follows from what f did in that invocation and the policy; each mechanism
\* call carries that invocation's own exception and arguments; and there are
\* as many mechanism invocations as escalations.
C10_IndependentInvocations ==
    /\ \A c \in DOMAIN calls : \A k \in 1..Len(wrapped) :
          (Started(c) /\ Over(c, k)) => Result(c, k) \in Expected(c, k)
    /\ \A i \in DOMAIN collection :
          /\ collection[i].by \in Notifying
          /\ collection[i].call = Report(collection[i].by[1], collection[i].by[2])
          /\ collection[i].call.ex.origin[1] = collection[i].by[1]
    /\ \A i, j \in DOMAIN collection : collection[i].by = collection[j].by => i = j
    /\ Len(collection) = Cardinality(Notifying)

C10_Witness ==
    /\ Cardinality(DOMAIN calls) >= 2
    /\ calls[1].pc = "done" /\ calls[2].pc = "done"
    /\ Len(collection) = 2
    /\ collection[1].by[1] = 2 /\ collection[2].by[1] = 1
    /\ collection[1].call.ex.type = "IndexError"
    /\ collection[2].call.ex.type = "KeyError"
    /\ collection[1].call.args = <<2, 2>> /\ collection[2].call.args = <<1, 2>>
    /\ Raised(calls[1].ret[Len(wrapped)])
    /\ calls[1].ret[Len(wrapped)].ex[1].root_cause = <<collection[2].call.ex>>

====
